---- MODULE Spec2Model ----
(***************************************************************************)
(* Model of the client-side data-protection gate `securityLayer` of        *)
(* ClauseCraft AI (session lifecycle, input validation, PII redaction,     *)
(* guarded execution) and of the collaborators that reach the LLM service. *)
(*                                                                         *)
(* Text.  A JavaScript string is a record [body, pad]: `body` is a         *)
(* sequence of one-character strings and `pad` counts a trailing run of    *)
(* the character "#" that follows body.  "#" belongs to no character class *)
(* of any PII pattern and is not a word character, so a match never        *)
(* contains it and it reads like the end of the text to every pattern;     *)
(* the run is kept as a count so that texts around MAX_INPUT_CHARS can be  *)
(* written down.                                                           *)
(***************************************************************************)
EXTENDS Integers, Sequences, FiniteSets, TLC

\* JavaScript null: a one-element tuple, equal to no string of the program
\* (a string is a tuple of single characters)
NULL == <<"null">>

\* ------------------------------------------------------------------ text
\* does the sequence hay hold the sequence needle as a run of neighbours
Contains(hay, needle) ==
    \E i \in 0 .. (Len(hay) - Len(needle)) :
        SubSeq(hay, i + 1, i + Len(needle)) = needle

Str(body, pad) == [body |-> body, pad |-> pad]

EmptyStr == Str(<<>>, 0)

\* text.length
Length(text) == Len(text.body) + text.pad

\* text.substring(0, n)
Substring0(text, n) ==
    IF n >= Length(text) THEN text
    ELSE IF n <= Len(text.body) THEN Str(SubSeq(text.body, 1, n), 0)
    ELSE Str(text.body, n - Len(text.body))

\* ------------------------------------------------- character classes
LowerLetters ==
    <<"a", "b", "c", "d", "e", "f", "g", "h", "i", "j", "k", "l", "m",
      "n", "o", "p", "q", "r", "s", "t", "u", "v", "w", "x", "y", "z">>

UpperLetters ==
    <<"A", "B", "C", "D", "E", "F", "G", "H", "I", "J", "K", "L", "M",
      "N", "O", "P", "Q", "R", "S", "T", "U", "V", "W", "X", "Y", "Z">>

Range(seq) == {seq[k] : k \in DOMAIN seq}

Letters == Range(LowerLetters) \cup Range(UpperLetters)

Digits == {"0", "1", "2", "3", "4", "5", "6", "7", "8", "9"}

\* \s (the white space the sample texts use)
Spaces == {" ", "\n", "\t"}

\* \w
WordChars == Letters \cup Digits \cup {"_"}

\* the two cases of a letter, for a literal under the i flag
CaseSet(c) ==
    IF \E k \in DOMAIN LowerLetters : c = LowerLetters[k] \/ c = UpperLetters[k]
    THEN LET k == CHOOSE k \in DOMAIN LowerLetters :
                      c = LowerLetters[k] \/ c = UpperLetters[k]
         IN  {LowerLetters[k], UpperLetters[k]}
    ELSE {c}

\* ------------------------------------------------ regular expressions
\* A regular expression is a record [t, set, parts, min, max, lazy]:
\*   t = "cls"  one character of `set`
\*   t = "wb"   \b
\*   t = "seq"  parts[1] parts[2] ...
\*   t = "alt"  parts[1] | parts[2] | ...
\*   t = "rep"  parts[1]{min,max}, max < 0 for no upper limit, lazy for {..}?
Cls(set) == [t |-> "cls", set |-> set, parts |-> <<>>, min |-> 0, max |-> 0, lazy |-> FALSE]

WB == [t |-> "wb", set |-> {}, parts |-> <<>>, min |-> 0, max |-> 0, lazy |-> FALSE]

Cat(parts) == [t |-> "seq", set |-> {}, parts |-> parts, min |-> 0, max |-> 0, lazy |-> FALSE]

Alt(parts) == [t |-> "alt", set |-> {}, parts |-> parts, min |-> 0, max |-> 0, lazy |-> FALSE]

Rep(r, min, max, lazy) ==
    [t |-> "rep", set |-> {}, parts |-> <<r>>, min |-> min, max |-> max, lazy |-> lazy]

Plus(r) == Rep(r, 1, -1, FALSE)

Opt(r) == Rep(r, 0, 1, FALSE)

Ch(c) == Cls({c})

\* a literal word, case-sensitive / under the i flag
Lit(word) == Cat([k \in DOMAIN word |-> Ch(word[k])])

LitI(word) == Cat([k \in DOMAIN word |-> Cls(CaseSet(word[k]))])

\* \b holds before position i of s (1-based; i = Len(s)+1 is the end)
IsBoundary(s, i) ==
    LET before == i > 1 /\ s[i - 1] \in WordChars
        after  == i <= Len(s) /\ s[i] \in WordChars
    IN  before # after

\* the number of characters of `set` in a row from position i of s
RunLength(set, s, i) ==
    CHOOSE n \in 0 .. (Len(s) - i + 1) :
        /\ \A m \in 0 .. (n - 1) : s[i + m] \in set
        /\ (n = Len(s) - i + 1 \/ s[i + n] \notin set)

\* the most characters a repeat with the limit max takes of a run
RunTop(max, run) == IF max < 0 \/ run < max THEN run ELSE max

\* the ends of a repeat that takes min to top characters from position i
RunList(i, min, top, lazy) ==
    IF top < min THEN <<>>
    ELSE [k \in 1 .. (top - min + 1) |->
             IF lazy THEN i + min + k - 1 ELSE i + top - k + 1]

\* the ends of a repeat of a one-character class: the class matches a run
\* of characters from position i, the repeat takes any number of them from
\* min to its limit, the most first unless it is lazy
RunEnds(re, s, i) ==
    RunList(i, re.min, RunTop(re.max, RunLength(re.parts[1].set, s, i)), re.lazy)

\* Ends(re, s, i): the positions at which a match of re that starts at
\* position i of s can end, in the order in which the backtracking matcher
\* tries them; the first one that lets the rest of the pattern match wins.
RECURSIVE Ends(_, _, _)
RECURSIVE SeqEnds(_, _, _, _)
RECURSIVE SeqOver(_, _, _, _, _)
RECURSIVE AltEnds(_, _, _, _)
RECURSIVE RepEnds(_, _, _, _)
RECURSIVE RepOver(_, _, _, _, _)

Ends(re, s, i) ==
    CASE re.t = "cls" -> IF i <= Len(s) /\ s[i] \in re.set THEN <<i + 1>> ELSE <<>>
      [] re.t = "wb"  -> IF IsBoundary(s, i) THEN <<i>> ELSE <<>>
      [] re.t = "seq" -> SeqEnds(re.parts, 1, s, i)
      [] re.t = "alt" -> AltEnds(re.parts, 1, s, i)
      [] re.t = "rep" -> IF re.parts[1].t = "cls" THEN RunEnds(re, s, i)
                         ELSE RepEnds(re, s, i, 0)

SeqEnds(parts, k, s, i) ==
    IF k > Len(parts) THEN <<i>>
    ELSE SeqOver(Ends(parts[k], s, i), 1, parts, k, s)

SeqOver(es, j, parts, k, s) ==
    IF j > Len(es) THEN <<>>
    ELSE SeqEnds(parts, k + 1, s, es[j]) \o SeqOver(es, j + 1, parts, k, s)

AltEnds(parts, k, s, i) ==
    IF k > Len(parts) THEN <<>>
    ELSE Ends(parts[k], s, i) \o AltEnds(parts, k + 1, s, i)

RepEnds(re, s, i, n) ==
    LET stop == IF n >= re.min THEN <<i>> ELSE <<>>
        more == IF re.max < 0 \/ n < re.max
                THEN RepOver(Ends(re.parts[1], s, i), 1, re, s, n)
                ELSE <<>>
    IN  IF re.lazy THEN stop \o more ELSE more \o stop

RepOver(es, j, re, s, n) ==
    IF j > Len(es) THEN <<>>
    ELSE RepEnds(re, s, es[j], n + 1) \o RepOver(es, j + 1, re, s, n)

\* the end of the match of re at position i of s, 0 when there is none
FirstEnd(es) == IF es = <<>> THEN 0 ELSE es[1]

MatchEnd(re, s, i) == FirstEnd(Ends(re, s, i))

\* the end of the match of re at each position of s
MatchEnds(re, s) == [j \in 1 .. Len(s) |-> MatchEnd(re, s, j)]

\* the first position from i on at which a match starts, given the ends
NextMatch(ends, i) ==
    CHOOSE j \in i .. Len(ends) :
        ends[j] > j /\ \A m \in i .. (j - 1) : ends[m] <= m

\* s.replace(re, token) for a global re: leftmost matches, left to right,
\* each search resuming where the previous match ended; the text between
\* two matches is copied as it is
RECURSIVE ReplaceFrom(_, _, _, _)
ReplaceFrom(ends, token, s, i) ==
    IF \A j \in i .. Len(s) : ends[j] <= j THEN SubSeq(s, i, Len(s))
    ELSE SubSeq(s, i, NextMatch(ends, i) - 1) \o token
             \o ReplaceFrom(ends, token, s, ends[NextMatch(ends, i)])

\* (the text is bound once, so that a text that is itself the result of a
\* replacement is worked out before the search starts and not during it)
Replace(s, re, token) ==
    CHOOSE out \in {ReplaceFrom(MatchEnds(re, v), token, v, 1) : v \in {s}} : TRUE

\* ---------------------------------------------------------- PII_PATTERNS
\* the EMAIL rule with letters and digits only before the @
EmailLocal_NoPunctuation == Letters \cup Digits

EmailLocal == Letters \cup Digits \cup {".", "_", "%", "+", "-"}

EmailDomain == Letters \cup Digits \cup {".", "-"}

PhoneSep == {"-", ".", " "}

StreetTypes ==
    << <<"S", "t", "r", "e", "e", "t">>, <<"S", "t">>,
       <<"A", "v", "e", "n", "u", "e">>, <<"A", "v", "e">>,
       <<"R", "o", "a", "d">>, <<"R", "d">>,
       <<"B", "o", "u", "l", "e", "v", "a", "r", "d">>, <<"B", "l", "v", "d">>,
       <<"L", "a", "n", "e">>, <<"L", "n">>,
       <<"D", "r", "i", "v", "e">>, <<"D", "r">>,
       <<"W", "a", "y">> >>

\* the PHONE rule taking two or three digits as its middle group
PhoneMiddle_TwoOrThree == Rep(Cls(Digits), 2, 3, FALSE)

\* ([0-9]{3}) : the middle group of the PHONE rule
PhoneMiddle == Rep(Cls(Digits), 3, 3, FALSE)

\* the ADDRESS rule without the house number in front
AddressNumber_Missing == Cat(<<>>)

\* \d+\s : the house number that opens the ADDRESS rule
AddressNumber == Cat(<<Plus(Cls(Digits)), Cls(Spaces)>>)

PII_PATTERNS ==
    [EMAIL |->
        Cat(<<Plus(Cls(EmailLocal)), Ch("@"), Plus(Cls(EmailDomain)), Ch("."),
              Rep(Cls(Letters), 2, -1, FALSE)>>),
     PHONE |->
        Cat(<<Opt(Cat(<<Opt(Ch("+")), Ch("1"), Opt(Cls(PhoneSep))>>)),
              Opt(Ch("(")), Rep(Cls(Digits), 3, 3, FALSE), Opt(Ch(")")),
              Opt(Cls(PhoneSep)), PhoneMiddle,
              Opt(Cls(PhoneSep)), Rep(Cls(Digits), 4, 4, FALSE)>>),
     SSN |->
        Cat(<<WB, Rep(Cls(Digits), 3, 3, FALSE), Ch("-"),
              Rep(Cls(Digits), 2, 2, FALSE), Ch("-"),
              Rep(Cls(Digits), 4, 4, FALSE), WB>>),
     CREDIT_CARD |->
        Cat(<<WB,
              Rep(Cat(<<Cls(Digits), Rep(Cls({" ", "-"}), 0, -1, TRUE)>>), 13, 16, FALSE),
              WB>>),
     ADDRESS |->
        Cat(<<AddressNumber,
              Plus(Cls(Letters \cup Digits \cup Spaces)),
              Alt([k \in DOMAIN StreetTypes |-> LitI(StreetTypes[k])]),
              Opt(Ch("."))>>)]

REDACTED_EMAIL ==
    <<"{", "R", "E", "D", "A", "C", "T", "E", "D", "_", "E", "M", "A", "I", "L", "}">>

REDACTED_PHONE ==
    <<"{", "R", "E", "D", "A", "C", "T", "E", "D", "_", "P", "H", "O", "N", "E", "}">>

\* the SSN pass writing the placeholder of the PHONE pass before it
REDACTED_SSN_AsPhone ==
    <<"{", "R", "E", "D", "A", "C", "T", "E", "D", "_", "P", "H", "O", "N", "E", "}">>

REDACTED_SSN ==
    <<"{", "R", "E", "D", "A", "C", "T", "E", "D", "_", "S", "S", "N", "}">>

REDACTED_CC ==
    <<"{", "R", "E", "D", "A", "C", "T", "E", "D", "_", "C", "C", "}">>

REDACTED_ADDRESS ==
    <<"{", "R", "E", "D", "A", "C", "T", "E", "D", "_", "A", "D", "D", "R", "E", "S", "S", "}">>

\* text.trim()
RECURSIVE Trim(_)
Trim(body) ==
    IF body = <<>> THEN body
    ELSE IF Head(body) \in Spaces THEN Trim(Tail(body))
    ELSE IF body[Len(body)] \in Spaces THEN Trim(SubSeq(body, 1, Len(body) - 1))
    ELSE body

\* redactPII trimming the text before the passes
redactPII_Trimmed(text) ==
    IF Length(text) = 0 THEN EmptyStr
    ELSE Str(Replace(Replace(Replace(Replace(Replace(Trim(text.body),
                 PII_PATTERNS.EMAIL, REDACTED_EMAIL),
                 PII_PATTERNS.PHONE, REDACTED_PHONE),
                 PII_PATTERNS.SSN, REDACTED_SSN),
                 PII_PATTERNS.CREDIT_CARD, REDACTED_CC),
                 PII_PATTERNS.ADDRESS, REDACTED_ADDRESS),
             text.pad)

\* redactPII with the CREDIT_CARD pass ahead of the PHONE pass
redactPII_CardFirst(text) ==
    IF Length(text) = 0 THEN EmptyStr
    ELSE Str(Replace(Replace(Replace(Replace(Replace(text.body,
                 PII_PATTERNS.EMAIL, REDACTED_EMAIL),
                 PII_PATTERNS.CREDIT_CARD, REDACTED_CC),
                 PII_PATTERNS.PHONE, REDACTED_PHONE),
                 PII_PATTERNS.SSN, REDACTED_SSN),
                 PII_PATTERNS.ADDRESS, REDACTED_ADDRESS),
             text.pad)

\* securityLayer.redactPII
redactPII(text) ==
    IF Length(text) = 0 THEN EmptyStr
    ELSE Str(Replace(Replace(Replace(Replace(Replace(text.body,
                 PII_PATTERNS.EMAIL, REDACTED_EMAIL),
                 PII_PATTERNS.PHONE, REDACTED_PHONE),
                 PII_PATTERNS.SSN, REDACTED_SSN),
                 PII_PATTERNS.CREDIT_CARD, REDACTED_CC),
                 PII_PATTERNS.ADDRESS, REDACTED_ADDRESS),
             text.pad)

\* --------------------------------------------------------- sample data
MAX_INPUT_CHARS == 100000

\* "Contact me at jane@example.com or 555-123-4567"
ScenarioText ==
    Str(<<"C", "o", "n", "t", "a", "c", "t", " ", "m", "e", " ", "a", "t", " ",
          "j", "a", "n", "e", "@", "e", "x", "a", "m", "p", "l", "e", ".", "c", "o", "m",
          " ", "o", "r", " ", "5", "5", "5", "-", "1", "2", "3", "-", "4", "5", "6", "7">>, 0)

\* "SSN: 123-45-6789"
SsnBody ==
    <<"S", "S", "N", ":", " ", "1", "2", "3", "-", "4", "5", "-", "6", "7", "8", "9">>

\* "a@b.co"
MailBody == <<"a", "@", "b", ".", "c", "o">>

\* a text of exactly MAX_INPUT_CHARS characters, one of one more, and the
\* 150,000-character text of the end-to-end scenario
AtLimitText == Str(MailBody, MAX_INPUT_CHARS - Len(MailBody))

OverLimitText == Str(MailBody, MAX_INPUT_CHARS + 1 - Len(MailBody))

HugeText == Str(SsnBody, 150000 - Len(SsnBody))

\* the inputs handed to secureExecute
ExecInputs == {ScenarioText, AtLimitText, OverLimitText, HugeText}

\* the texts handed to validateInput and to redactPII between guarded calls
ValidateInputs == {AtLimitText, OverLimitText}

RedactInputs == {ScenarioText}

\* the contract texts, clause texts and queries the collaborators are given
ContractTexts == {ScenarioText}

ClauseTexts == {Str(SsnBody, 0)}

Queries == {Str(MailBody, 0)}

\* the content of an uploaded PDF file, and a text to read aloud
PdfFiles == {Str(SsnBody, 0)}

SpeechTexts == {ScenarioText}

\* ---------------------------------------- sample texts for redactPII alone
\* the label of each category: the keys of PII_PATTERNS
CategoryLabel ==
    [EMAIL |-> <<"E", "M", "A", "I", "L">>,
     PHONE |-> <<"P", "H", "O", "N", "E">>,
     SSN |-> <<"S", "S", "N">>,
     CREDIT_CARD |-> <<"C", "R", "E", "D", "I", "T", "_", "C", "A", "R", "D">>,
     ADDRESS |-> <<"A", "D", "D", "R", "E", "S", "S">>]

Categories == DOMAIN CategoryLabel

\* one text per category that is a match of that category's rule and nothing
\* else: "a@b.co", "555-123-4567", "123-45-6789", "4111 1111 1111 1111",
\* "12 Main St"
CategorySample ==
    [EMAIL |-> Str(MailBody, 0),
     PHONE |-> Str(<<"5", "5", "5", "-", "1", "2", "3", "-", "4", "5", "6", "7">>, 0),
     SSN |-> Str(<<"1", "2", "3", "-", "4", "5", "-", "6", "7", "8", "9">>, 0),
     CREDIT_CARD |-> Str(<<"4", "1", "1", "1", " ", "1", "1", "1", "1", " ", "1", "1", "1", "1", " ", "1", "1", "1", "1">>, 0),
     ADDRESS |-> Str(<<"1", "2", " ", "M", "a", "i", "n", " ", "S", "t">>, 0)]

\* texts holding one e-mail address: what precedes it, the address, what
\* follows it
EmailSamples ==
    {[pre |-> <<"C", "o", "n", "t", "a", "c", "t", " ", "m", "e", " ", "a", "t", " ">>,
      email |-> <<"j", "a", "n", "e", "@", "e", "x", "a", "m", "p", "l", "e", ".", "c", "o", "m">>,
      post |-> <<" ", "o", "r", " ", "5", "5", "5", "-", "1", "2", "3", "-", "4", "5", "6", "7">>],
     [pre |-> <<"M", "a", "i", "l", " ">>,
      email |-> 
          <<"f", "i", "r", "s", "t", ".", "l", "a", "s", "t", "+", "t", "a",
            "g", "@", "m", "a", "i", "l", ".", "e", "x", "a", "m", "p", "l",
            "e", "-", "s", "i", "t", "e", ".", "o", "r", "g">>,
      post |-> <<",", " ", "t", "h", "a", "n", "k", "s">>],
     [pre |-> <<>>, email |-> MailBody, post |-> <<";", " ", "c", "@", "d", ".", "o", "r", "g">>]}

EmailText(e) == Str(e.pre \o e.email \o e.post, 0)

\* texts holding one payment-card number: what precedes it, the 16 digits
\* as written, what follows it
CardSamples ==
    {[pre |-> <<"C", "a", "r", "d", " ">>,
      card |-> <<"4", "1", "1", "1", " ", "1", "1", "1", "1", " ", "1", "1", "1", "1", " ", "1", "1", "1", "1">>,
      post |-> <<>>],
     [pre |-> <<"C", "a", "r", "d", " ">>,
      card |-> <<"4", "1", "1", "1", "1", "1", "1", "1", "1", "1", "1", "1", "1", "1", "1", "1">>,
      post |-> <<>>]}

CardText(e) == Str(e.pre \o e.card \o e.post, 0)

\* texts in which no rule finds a match: " Term: 2 years ", "ID 1123-45-67890"
\* and the empty text
CleanTexts ==
    {Str(<<" ", "T", "e", "r", "m", ":", " ", "2", " ", "y", "e", "a", "r", "s", " ">>, 0),
     Str(<<"I", "D", " ", "1", "1", "2", "3", "-", "4", "5", "-", "6", "7", "8", "9", "0">>, 0),
     EmptyStr}

\* "at 12 Main St. ok", and "12 Main St123-45-6789", whose last eleven
\* characters have the form of a social security number once the address
\* before them is gone
AddressTexts ==
    {Str(<<"a", "t", " ", "1", "2", " ", "M", "a", "i", "n", " ", "S", "t", ".", " ", "o", "k">>, 0),
     Str(<<"1", "2", " ", "M", "a", "i", "n", " ", "S", "t", "1", "2", "3", "-", "4", "5", "-", "6", "7", "8", "9">>, 0)}

\* the texts redactPII is applied to on its own
PureTexts ==
    {CategorySample[k] : k \in Categories}
        \cup {EmailText(e) : e \in EmailSamples}
        \cup {CardText(e) : e \in CardSamples}
        \cup CleanTexts \cup AddressTexts \cup {Str(SsnBody, 0)}

\* redactPII of each sample text, worked out once
RedactedInput == [text \in ExecInputs \cup PureTexts |-> redactPII(text)]

\* the texts contractParser.parse resolves with
ParsedTexts == ContractTexts \cup {OverLimitText}

\* redactPII of the texts the App keeps in its state, which are redacted
\* already
RedactedShown == [text \in {RedactedInput[t] : t \in ParsedTexts} |-> redactPII(text)]

\* redactPII(text), read from the tables where the text is a sample
Redacted(text) ==
    IF text \in DOMAIN RedactedInput THEN RedactedInput[text]
    ELSE IF text \in DOMAIN RedactedShown THEN RedactedShown[text]
    ELSE redactPII(text)

\* what a unit of work resolves with / fails with
Results == {"r1", "r2"}

Errors == {"e1"}

\* the number of guarded calls of one behaviour
MaxCalls == 1

CallIds == 1 .. MaxCalls

\* --------------------------------------------------------- session ids
HexDigits ==
    <<"0", "1", "2", "3", "4", "5", "6", "7", "8", "9", "a", "b", "c", "d", "e", "f">>

\* new Uint8Array(16)
SessionBytes == 16

\* byte.toString(16)
ToString16(byte) ==
    IF byte < 16 THEN <<HexDigits[byte + 1]>>
    ELSE <<HexDigits[(byte \div 16) + 1], HexDigits[(byte % 16) + 1]>>

\* s.padStart(2, '0')
PadStart2(s) == IF Len(s) < 2 THEN <<"0">> \o s ELSE s

\* Array.from(array, byte => ...).join('')
RECURSIVE JoinHex(_, _)
JoinHex(array, k) ==
    IF k > Len(array) THEN <<>>
    ELSE PadStart2(ToString16(array[k])) \o JoinHex(array, k + 1)

\* sessionId.substring(0, 6)
Prefix6(id) == IF Len(id) <= 6 THEN id ELSE SubSeq(id, 1, 6)

\* the arrays crypto.getRandomValues is taken to fill in
RandomArrays ==
    {[k \in 1 .. SessionBytes |-> k - 1],
     [k \in 1 .. SessionBytes |-> (k * 37) % 256]}

\* the values Date.now() is taken to return: two instants after the epoch,
\* counted from an origin that keeps them within the checker's integers
DateNowValues == {1, 2}

\* ---------------------------------------------------------------- state
VARIABLES
    currentSession,   \* the module-level session record
    calls,            \* the guarded calls: CallIds -> call record
    log,              \* the console entries of the operation that wrote last
    requests,         \* the requests the last sending operation sent to the LLM service
    lastOp,           \* the public operation that ran last, what it returned,
                      \* and whether a session was active when it started
    prevId,           \* the identifier of the session that ended last
    app               \* the App component: whether it is mounted, its state
                      \* hooks, and the runs of handleProcess

vars == <<currentSession, calls, log, requests, lastOp, prevId, app>>

NoSession == [id |-> NULL, isActive |-> FALSE, startTime |-> 0]

NoOutcome == [kind |-> "none", v |-> ""]

\* A guarded call.  status: "idle" (not made), "awaiting" (the task is in
\* flight), "settled" (the task's promise has settled and the rest of
\* secureExecute is queued), "resolved", "rejected".  taskArgs lists the
\* arguments of every invocation of the task; validations and redactions
\* count the evaluations of validateInput and redactPII made for the call;
\* entryActive / entryId are the session at entry, doneId the session
\* identifier when the call's promise settled; response is what the model
\* answered to a call of riskAnalysis.analyze.
IdleCall ==
    [status |-> "idle", input |-> EmptyStr, taskName |-> "",
     validations |-> 0, redactions |-> 0, taskArgs |-> <<>>,
     taskOutcome |-> NoOutcome, outcome |-> NoOutcome,
     entryActive |-> FALSE, entryId |-> NULL, doneId |-> NULL,
     startActive |-> FALSE, retryOf |-> EmptyStr,
     response |-> [text |-> "", parse |-> "", message |-> ""]]

NO_SESSION_ERROR == "Security Error: No active session."

VALIDATION_ERROR == "Security Error: Input validation failed (too large or unsafe)."

LogEntry(msg, task, id6, len, err) ==
    [msg |-> msg, task |-> task, id6 |-> id6, len |-> len, err |-> err]

\* a run of handleProcess: pc is "idle" (not started), "parsing" (at the
\* await of contractParser.parse) or "analyzing" (at the await of
\* riskAnalysis.analyze); text is what parse resolves with; stale tells that
\* handleClearSession ran while the run was in flight
IdleProc == [pc |-> "idle", text |-> EmptyStr, stale |-> FALSE]

\* App before its mount effect has run: the state hooks hold their initial
\* values.  textFrom / analysisFrom tell what kind of run of handleProcess
\* installed the contract text / the analysis ("none", "fresh", "stale").
NotMounted ==
    [mounted |-> "no", authenticated |-> FALSE,
     sessionId |-> NULL, contractText |-> NULL,
     analysis |-> NULL, isProcessing |-> FALSE,
     procs |-> [p \in CallIds |-> IdleProc],
     textFrom |-> "none", analysisFrom |-> "none"]

Init ==
    /\ currentSession = NoSession
    /\ calls = [c \in CallIds |-> IdleCall]
    /\ log = {}
    /\ requests = {}
    /\ lastOp = [op |-> "none", ret |-> NULL, preActive |-> FALSE, arg |-> EmptyStr]
    /\ prevId = NULL
    /\ app = NotMounted

\* a continuation of an async function is queued: it runs before any new
\* event handler does
MicrotaskPending == \E c \in CallIds : calls[c].status = "settled"

\* ------------------------------------------------------ session lifecycle
\* initSession leaving a session that is already active in place
NewSession_KeepActive(sessionId, now) ==
    IF currentSession.isActive THEN currentSession
    ELSE [id |-> sessionId, isActive |-> TRUE, startTime |-> now]

\* the record initSession installs
NewSession(sessionId, now) == [id |-> sessionId, isActive |-> TRUE, startTime |-> now]

\* securityLayer.initSession
initSession(array, now) ==
    LET sessionId == JoinHex(array, 1)
    IN  /\ ~MicrotaskPending
        /\ currentSession' = NewSession(sessionId, now)
        /\ log' = {LogEntry("initialized", "", Prefix6(sessionId), 0, "")}
        /\ lastOp' = [op |-> "initSession", ret |-> sessionId,
                      preActive |-> currentSession.isActive,
                  arg |-> EmptyStr]
        /\ prevId' = IF currentSession.id # NULL THEN currentSession.id ELSE prevId
        /\ UNCHANGED <<calls, requests, app>>

\* securityLayer.getSessionId: the value returned
SessionIdRead == currentSession.id

getSessionId ==
    /\ ~MicrotaskPending
    /\ lastOp' = [op |-> "getSessionId", ret |-> SessionIdRead,
                  preActive |-> currentSession.isActive,
                  arg |-> EmptyStr]
    /\ UNCHANGED <<currentSession, calls, log, requests, prevId, app>>

\* clearSession flipping isActive only
ClearedSession_KeepId == [id |-> currentSession.id, isActive |-> FALSE, startTime |-> 0]

\* the record clearSession installs
ClearedSession == [id |-> NULL, isActive |-> FALSE, startTime |-> 0]

\* `${oldId?.substring(0, 6)}`
OldIdText(oldId) == IF oldId = NULL THEN <<"undefined">> ELSE Prefix6(oldId)

\* securityLayer.clearSession
clearSession ==
    LET oldId == currentSession.id
    IN  /\ ~MicrotaskPending
        /\ currentSession' = ClearedSession
        /\ log' = {LogEntry("destroyed", "", OldIdText(oldId), 0, "")}
        /\ lastOp' = [op |-> "clearSession", ret |-> <<"undefined">>,
                      preActive |-> currentSession.isActive,
                  arg |-> EmptyStr]
        /\ prevId' = IF oldId # NULL THEN oldId ELSE prevId
        /\ UNCHANGED <<calls, requests, app>>

\* ------------------------------------------------------- input validation
\* validateInput without the length test
validateInput_NoLimit(text) == TRUE

\* validateInput turning away a text of exactly the limit
validateInput_AtLimit(text) == ~(Length(text) >= MAX_INPUT_CHARS)

\* securityLayer.validateInput: the value returned
validateInput(text) == ~(Length(text) > MAX_INPUT_CHARS)

\* securityLayer.validateInput: the entries it writes
ValidateLog(text) ==
    IF Length(text) > MAX_INPUT_CHARS
    THEN {LogEntry("exceeds max length", "", <<>>, MAX_INPUT_CHARS, "")}
    ELSE {}

\* the entry of line 146 interpolating the redacted text itself
ExecLog_FullText(taskName, safeInput) ==
    LogEntry("executing", taskName, safeInput.body, Length(safeInput), "")

\* the entry secureExecute writes before it calls the task: the task name and
\* the length of the redacted input
ExecLog(taskName, safeInput) ==
    LogEntry("executing", taskName, <<>>, Length(safeInput), "")

\* ------------------------------------------------------------ the tasks
\* A unit of work is a task name and the values its closure captured.
\* PromptTexts: the caller-supplied texts the task of a collaborator puts
\* into the prompt it sends, in the order of the template.
PromptTexts(taskName, safeInput, captured) ==
    CASE taskName = "Risk Analysis Phase 2" ->
            <<Substring0(safeInput, 40000)>>
      [] taskName = "Improved Summary" ->
            <<Substring0(safeInput, 20000)>>
      [] taskName = "Benchmark Clause Normality" ->
            <<safeInput, safeInput, Substring0(captured[1], 10000)>>
      [] taskName = "NL Search Phase 3" ->
            <<captured[1], captured[1], Substring0(safeInput, 30000)>>
      [] taskName = "Simple Chat" ->
            <<captured[1], Substring0(safeInput, 20000)>>
      [] OTHER -> <<>>

\* a request to the LLM service: who sent it, whether from inside a task
\* run by secureExecute, whether a session was active, and its texts
Request(by, viaGate, texts) ==
    [by |-> by, viaGate |-> viaGate, sessionActive |-> currentSession.isActive,
     texts |-> texts]

\* the requests the task of a collaborator sends before it first yields (the
\* task named "task" stands for any closure, and sends none)
TaskRequests(taskName, safeInput, captured) ==
    {Request(taskName, TRUE, PromptTexts(taskName, safeInput, captured))}

\* ------------------------------------------------------ guarded execution
\* secureExecute without the session test
NoActiveSession_Skipped == FALSE

\* secureExecute turning every call away, session or not
NoActiveSession_Always == TRUE

\* !currentSession.isActive || !currentSession.id
NoActiveSession == ~currentSession.isActive \/ currentSession.id = NULL

\* the size of the input tested ahead of the session
FailedCheck_ValidationFirst(input) ==
    IF ~validateInput(input) THEN "validation"
    ELSE IF NoActiveSession THEN "session"
    ELSE "none"

\* the first check of secureExecute that fails: the session check of lines
\* 136-138 comes before the validation of lines 140-142
FailedCheck(input) ==
    IF NoActiveSession THEN "session"
    ELSE IF ~validateInput(input) THEN "validation"
    ELSE "none"

\* task(input)
TaskCall_Raw(input, safeInput) == <<input>>

\* task(safeInput): the argument list of the call of the task
TaskCall(input, safeInput) == <<safeInput>>

\* the result awaited but not returned
Returned_Dropped(result) == "undefined"

\* return result
Returned(result) == result

\* throw new Error(...) in place of the error caught
Thrown_Wrapped(error) == "Security Error: task failed."

\* throw error
Thrown(error) == error

\* securityLayer.secureExecute, from the call to the point where it awaits
\* the task: the session check, the validation, the redaction and the call
\* of the task run without a break.
secureExecute(c, input, taskName, captured) ==
    LET entered == [calls[c] EXCEPT !.input = input, !.taskName = taskName,
                                    !.entryActive = currentSession.isActive,
                                    !.entryId = currentSession.id]
        safeInput == Redacted(input)
    IN  /\ ~MicrotaskPending
        /\ calls[c].status = "idle"
        /\ lastOp' = [op |-> "secureExecute", ret |-> NULL,
                      preActive |-> currentSession.isActive,
                  arg |-> EmptyStr]
        /\ UNCHANGED <<currentSession, prevId>>
        /\ IF FailedCheck(input) = "session"
           THEN /\ calls' = [calls EXCEPT ![c] =
                       [entered EXCEPT !.status = "rejected",
                                       !.outcome = [kind |-> "error", v |-> NO_SESSION_ERROR],
                                       !.doneId = currentSession.id]]
                /\ UNCHANGED <<log, requests>>
           ELSE IF FailedCheck(input) = "validation"
           THEN /\ calls' = [calls EXCEPT ![c] =
                       [entered EXCEPT !.status = "rejected",
                                       !.validations = 1,
                                       !.outcome = [kind |-> "error", v |-> VALIDATION_ERROR],
                                       !.doneId = currentSession.id]]
                /\ log' = ValidateLog(input)
                /\ UNCHANGED requests
           ELSE /\ calls' = [calls EXCEPT ![c] =
                       [entered EXCEPT !.status = "awaiting",
                                       !.validations = 1,
                                       !.redactions = 1,
                                       !.taskArgs = TaskCall(input, safeInput),
                                       !.startActive = currentSession.isActive]]
                /\ log' = ValidateLog(input) \cup {ExecLog(taskName, safeInput)}
                /\ requests' =
                       IF taskName = "task" THEN requests
                       ELSE TaskRequests(taskName, Head(TaskCall(input, safeInput)), captured)

\* the promise returned by the task settles: with a value or with a failure
TaskSettles(c, kind, v) ==
    /\ ~MicrotaskPending
    /\ calls[c].status = "awaiting"
    /\ calls' = [calls EXCEPT ![c].status = "settled",
                              ![c].taskOutcome = [kind |-> kind, v |-> v]]
    /\ UNCHANGED <<currentSession, log, requests, lastOp, prevId, app>>

\* the catch block of secureExecute ending the session when the task failed
SessionAfterTask_ClearedOnError(kind) ==
    IF kind = "error" THEN [id |-> NULL, isActive |-> FALSE, startTime |-> 0]
    ELSE currentSession

\* the session record after lines 150-155: neither the return nor the catch
\* block writes currentSession
SessionAfterTask(kind) == currentSession

\* securityLayer.secureExecute after the await: return result, or the catch
\* block (log, throw error)
secureExecuteResumes(c) ==
    LET settled == calls[c].taskOutcome
    IN  /\ calls[c].status = "settled"
        /\ IF settled.kind = "value"
           THEN /\ calls' = [calls EXCEPT ![c].status = "resolved",
                                          ![c].outcome = [kind |-> "value",
                                                          v |-> Returned(settled.v)],
                                          ![c].doneId = currentSession.id]
                /\ UNCHANGED log
           ELSE /\ calls' = [calls EXCEPT ![c].status = "rejected",
                                          ![c].outcome = [kind |-> "error",
                                                          v |-> Thrown(settled.v)],
                                          ![c].doneId = currentSession.id]
                /\ log' = {LogEntry("error", calls[c].taskName, <<>>, 0, settled.v)}
        /\ currentSession' = SessionAfterTask(settled.kind)
        /\ UNCHANGED <<requests, lastOp, prevId, app>>

\* ------------------------------------- the gate under any unit of work
GuardedCall ==
    \E c \in CallIds, input \in ExecInputs :
        /\ secureExecute(c, input, "task", <<>>)
        /\ UNCHANGED app

TaskResolves == \E c \in CallIds, r \in Results : TaskSettles(c, "value", r)

TaskFails == \E c \in CallIds, e \in Errors : TaskSettles(c, "error", e)

Resume == \E c \in CallIds : secureExecuteResumes(c)

InitSessionOp == \E array \in RandomArrays, now \in DateNowValues : initSession(array, now)

\* securityLayer.validateInput called on its own
validateInputCalled(text) ==
    /\ ~MicrotaskPending
    /\ log' = IF ValidateLog(text) = {} THEN log ELSE ValidateLog(text)
    /\ lastOp' = [op |-> "validateInput", ret |-> validateInput(text),
                  preActive |-> currentSession.isActive, arg |-> text]
    /\ UNCHANGED <<currentSession, calls, requests, prevId, app>>

\* securityLayer.redactPII called on its own
redactPIICalled(text) ==
    /\ ~MicrotaskPending
    /\ lastOp' = [op |-> "redactPII", ret |-> Redacted(text),
                  preActive |-> currentSession.isActive, arg |-> text]
    /\ UNCHANGED <<currentSession, calls, log, requests, prevId, app>>

ValidateOp == \E text \in ValidateInputs : validateInputCalled(text)

RedactOp == \E text \in RedactInputs : redactPIICalled(text)

Next ==
    \/ InitSessionOp
    \/ getSessionId
    \/ clearSession
    \/ ValidateOp
    \/ RedactOp
    \/ GuardedCall
    \/ TaskResolves
    \/ TaskFails
    \/ Resume

Spec == Init /\ [][Next]_vars

\* ------------------------------------- secureExecute statement by statement
\* secureExecute giving way to other handlers between its statements
HandlerRunning_Yields == FALSE

\* a call of secureExecute is between its first statement and its await:
\* lines 136-150 hold no await before that of the task, and the host runs a
\* handler to its first await before it runs anything else
HandlerRunning ==
    \E c \in CallIds : calls[c].status \in {"checked", "validated", "redacted"}

\* lines 136-138: the session check
secureExecuteChecks(c, input, taskName) ==
    LET entered == [calls[c] EXCEPT !.input = input, !.taskName = taskName,
                                    !.entryActive = currentSession.isActive,
                                    !.entryId = currentSession.id]
    IN  /\ ~MicrotaskPending
        /\ ~HandlerRunning
        /\ calls[c].status = "idle"
        /\ lastOp' = [op |-> "secureExecute", ret |-> NULL,
                      preActive |-> currentSession.isActive, arg |-> EmptyStr]
        /\ calls' = [calls EXCEPT ![c] =
                IF NoActiveSession
                THEN [entered EXCEPT !.status = "rejected",
                                     !.outcome = [kind |-> "error", v |-> NO_SESSION_ERROR],
                                     !.doneId = currentSession.id]
                ELSE [entered EXCEPT !.status = "checked"]]
        /\ UNCHANGED <<currentSession, log, requests, prevId, app>>

\* lines 140-142: the validation
secureExecuteValidates(c) ==
    /\ calls[c].status = "checked"
    /\ IF ~validateInput(calls[c].input)
       THEN /\ calls' = [calls EXCEPT ![c].status = "rejected",
                                      ![c].validations = 1,
                                      ![c].outcome = [kind |-> "error", v |-> VALIDATION_ERROR],
                                      ![c].doneId = currentSession.id]
            /\ log' = ValidateLog(calls[c].input)
       ELSE /\ calls' = [calls EXCEPT ![c].status = "validated",
                                      ![c].validations = 1]
            /\ UNCHANGED log
    /\ UNCHANGED <<currentSession, requests, lastOp, prevId, app>>

\* lines 145-146: the redaction and the log entry
secureExecuteRedacts(c) ==
    /\ calls[c].status = "validated"
    /\ calls' = [calls EXCEPT ![c].status = "redacted", ![c].redactions = 1]
    /\ log' = {ExecLog(calls[c].taskName, Redacted(calls[c].input))}
    /\ UNCHANGED <<currentSession, requests, lastOp, prevId, app>>

\* line 150: the task is called, and secureExecute awaits what it returns
secureExecuteCallsTask(c) ==
    /\ calls[c].status = "redacted"
    /\ calls' = [calls EXCEPT
                    ![c].status = "awaiting",
                    ![c].taskArgs = TaskCall(calls[c].input, Redacted(calls[c].input)),
                    ![c].startActive = currentSession.isActive]
    /\ UNCHANGED <<currentSession, log, requests, lastOp, prevId, app>>

CheckStep == \E c \in CallIds, input \in ExecInputs : secureExecuteChecks(c, input, "task")

ValidateStep == \E c \in CallIds : secureExecuteValidates(c)

RedactStep == \E c \in CallIds : secureExecuteRedacts(c)

CallStep == \E c \in CallIds : secureExecuteCallsTask(c)

\* the other handlers start only when no handler is running
InitBetween == ~HandlerRunning /\ InitSessionOp

ClearBetween == ~HandlerRunning /\ clearSession

ResolveBetween == ~HandlerRunning /\ TaskResolves

FailBetween == ~HandlerRunning /\ TaskFails

ResumeBetween == ~HandlerRunning /\ Resume

NextSteps ==
    \/ InitBetween
    \/ ClearBetween
    \/ CheckStep
    \/ ValidateStep
    \/ RedactStep
    \/ CallStep
    \/ ResolveBetween
    \/ FailBetween
    \/ ResumeBetween

SpecSteps == Init /\ [][NextSteps]_vars

\* ------------------------------------------- a caller that tries again
\* the catch block of the caller of a call that was rejected for want of a
\* session: the promise is dropped, the input is kept for one more attempt
RejectionCaught(c) ==
    /\ ~MicrotaskPending
    /\ calls[c].status = "rejected"
    /\ calls[c].outcome = [kind |-> "error", v |-> NO_SESSION_ERROR]
    /\ calls[c].retryOf = EmptyStr
    /\ calls' = [calls EXCEPT ![c] = [IdleCall EXCEPT !.retryOf = calls[c].input]]
    /\ UNCHANGED <<currentSession, log, requests, lastOp, prevId, app>>

FirstCall ==
    \E c \in CallIds, input \in ExecInputs :
        /\ calls[c].retryOf = EmptyStr
        /\ secureExecute(c, input, "task", <<>>)
        /\ UNCHANGED app

CatchOp == \E c \in CallIds : RejectionCaught(c)

\* secureExecute called again with the input of the rejected call
RetryCall ==
    \E c \in CallIds :
        /\ calls[c].retryOf # EmptyStr
        /\ secureExecute(c, calls[c].retryOf, "task", <<>>)
        /\ UNCHANGED app

NextRetry ==
    \/ InitSessionOp
    \/ clearSession
    \/ FirstCall
    \/ CatchOp
    \/ RetryCall
    \/ TaskResolves
    \/ TaskFails
    \/ Resume

SpecRetry == Init /\ [][NextRetry]_vars

\* ------------------------------------------------------ the collaborators
\* riskAnalysis.analyze
analyze(c, contractText) ==
    secureExecute(c, contractText, "Risk Analysis Phase 2", <<>>)

\* enhancedSummary.generate
generate(c, contractText) ==
    secureExecute(c, contractText, "Improved Summary", <<>>)

\* normalityCheck.benchmarkClause
benchmarkClause(c, clauseText, contractText) ==
    secureExecute(c, clauseText, "Benchmark Clause Normality", <<contractText>>)

\* nlSearch.searchContract
searchContract(c, query, contractText) ==
    secureExecute(c, contractText, "NL Search Phase 3", <<query>>)

\* nlSearch.query
query(c, q, contractText) ==
    secureExecute(c, contractText, "Simple Chat", <<q>>)

\* extractPdfText (contractParser.parse of a PDF file): the file's data goes
\* to the service in the request
extractPdfText(file) ==
    /\ ~MicrotaskPending
    /\ requests' = {Request("extractPdfText", FALSE, <<file>>)}
    /\ lastOp' = [op |-> "extractPdfText", ret |-> NULL,
                  preActive |-> currentSession.isActive,
                  arg |-> EmptyStr]
    /\ UNCHANGED <<currentSession, calls, log, prevId, app>>

\* ttsGenerator.generateAudioUrl: the text goes to the service in the prompt
generateAudioUrl(text) ==
    /\ ~MicrotaskPending
    /\ requests' = {Request("generateAudioUrl", FALSE, <<text>>)}
    /\ lastOp' = [op |-> "generateAudioUrl", ret |-> NULL,
                  preActive |-> currentSession.isActive,
                  arg |-> EmptyStr]
    /\ UNCHANGED <<currentSession, calls, log, prevId, app>>

AnalyzeOp ==
    \E c \in CallIds, t \in ContractTexts : analyze(c, t) /\ UNCHANGED app

GenerateOp ==
    \E c \in CallIds, t \in ContractTexts : generate(c, t) /\ UNCHANGED app

BenchmarkOp ==
    \E c \in CallIds, cl \in ClauseTexts, t \in ContractTexts :
        benchmarkClause(c, cl, t) /\ UNCHANGED app

SearchOp ==
    \E c \in CallIds, q \in Queries, t \in ContractTexts :
        searchContract(c, q, t) /\ UNCHANGED app

QueryOp ==
    \E c \in CallIds, q \in Queries, t \in ContractTexts :
        query(c, q, t) /\ UNCHANGED app

ExtractPdfOp == \E file \in PdfFiles : extractPdfText(file)

AudioOp == \E text \in SpeechTexts : generateAudioUrl(text)

NextCollab ==
    \/ InitSessionOp
    \/ clearSession
    \/ AnalyzeOp
    \/ GenerateOp
    \/ BenchmarkOp
    \/ SearchOp
    \/ QueryOp
    \/ ExtractPdfOp
    \/ AudioOp
    \/ TaskResolves
    \/ TaskFails
    \/ Resume

SpecCollab == Init /\ [][NextCollab]_vars

\* ------------------------------------- riskAnalysis.analyze: the response
\* throw new Error("The uploaded document does not appear to be a legal contract.")
LEGAL_ERROR == "The uploaded document does not appear to be a legal contract."

\* throw new Error("Failed to parse analysis results.")
PARSE_ERROR == "Failed to parse analysis results."

\* throw new Error("Failed to generate analysis")
GENERATE_ERROR == "Failed to generate analysis"

\* the message of the SyntaxError JSON.parse throws for the response text
\* 'Not a legal contract'; the wording is the engine's.  An engine that
\* quotes the source text (V8 quotes a text under 21 characters whole):
SYNTAX_ERROR_QUOTING == "Unexpected token 'N', \"Not a legal contract\" is not valid JSON"

\* an engine that reports the position only
SYNTAX_ERROR_POSITION == "JSON.parse: unexpected character at line 1 column 1 of the JSON data"

\* the message of the TypeError of result.is_legal_document when the
\* response text is 'null'
NULL_TYPE_ERROR == "Cannot read properties of null (reading 'is_legal_document')"

\* the characters of a message
MessageText ==
    [m \in {LEGAL_ERROR, PARSE_ERROR, GENERATE_ERROR, SYNTAX_ERROR_QUOTING,
            SYNTAX_ERROR_POSITION, NULL_TYPE_ERROR} |->
        CASE m = LEGAL_ERROR ->
               <<"T", "h", "e", " ", "u", "p", "l", "o", "a", "d", "e", "d",
                 " ", "d", "o", "c", "u", "m", "e", "n", "t", " ", "d", "o",
                 "e", "s", " ", "n", "o", "t", " ", "a", "p", "p", "e", "a",
                 "r", " ", "t", "o", " ", "b", "e", " ", "a", " ", "l", "e",
                 "g", "a", "l", " ", "c", "o", "n", "t", "r", "a", "c", "t",
                 ".">>
          [] m = PARSE_ERROR ->
               <<"F", "a", "i", "l", "e", "d", " ", "t", "o", " ", "p", "a",
                 "r", "s", "e", " ", "a", "n", "a", "l", "y", "s", "i", "s",
                 " ", "r", "e", "s", "u", "l", "t", "s", ".">>
          [] m = GENERATE_ERROR ->
               <<"F", "a", "i", "l", "e", "d", " ", "t", "o", " ", "g", "e",
                 "n", "e", "r", "a", "t", "e", " ", "a", "n", "a", "l", "y",
                 "s", "i", "s">>
          [] m = SYNTAX_ERROR_QUOTING ->
               <<"U", "n", "e", "x", "p", "e", "c", "t", "e", "d", " ", "t",
                 "o", "k", "e", "n", " ", "'", "N", "'", ",", " ", "\"", "N",
                 "o", "t", " ", "a", " ", "l", "e", "g", "a", "l", " ", "c",
                 "o", "n", "t", "r", "a", "c", "t", "\"", " ", "i", "s", " ",
                 "n", "o", "t", " ", "v", "a", "l", "i", "d", " ", "J", "S",
                 "O", "N">>
          [] m = SYNTAX_ERROR_POSITION ->
               <<"J", "S", "O", "N", ".", "p", "a", "r", "s", "e", ":", " ",
                 "u", "n", "e", "x", "p", "e", "c", "t", "e", "d", " ", "c",
                 "h", "a", "r", "a", "c", "t", "e", "r", " ", "a", "t", " ",
                 "l", "i", "n", "e", " ", "1", " ", "c", "o", "l", "u", "m",
                 "n", " ", "1", " ", "o", "f", " ", "t", "h", "e", " ", "J",
                 "S", "O", "N", " ", "d", "a", "t", "a">>
          [] m = NULL_TYPE_ERROR ->
               <<"C", "a", "n", "n", "o", "t", " ", "r", "e", "a", "d", " ",
                 "p", "r", "o", "p", "e", "r", "t", "i", "e", "s", " ", "o",
                 "f", " ", "n", "u", "l", "l", " ", "(", "r", "e", "a", "d",
                 "i", "n", "g", " ", "'", "i", "s", "_", "l", "e", "g", "a",
                 "l", "_", "d", "o", "c", "u", "m", "e", "n", "t", "'", ")">>]

\* e.message.includes("legal contract")
IncludesLegalContract(message) ==
    Contains(MessageText[message],
             <<"l", "e", "g", "a", "l", " ", "c", "o", "n", "t", "r", "a",
               "c", "t">>)

\* what generateContent resolved with, as analyze reads it: response.text
\* absent or present, and what JSON.parse(response.text) makes of it: a
\* result of a legal document, a result with is_legal_document false, null,
\* or a SyntaxError with the engine's message
NoResponse == [text |-> "", parse |-> "", message |-> ""]

ModelResponses ==
    {[text |-> "absent", parse |-> "", message |-> ""],
     [text |-> "present", parse |-> "legal", message |-> ""],
     [text |-> "present", parse |-> "not legal", message |-> ""],
     [text |-> "present", parse |-> "null", message |-> ""],
     [text |-> "present", parse |-> "syntax error", message |-> SYNTAX_ERROR_QUOTING],
     [text |-> "present", parse |-> "syntax error", message |-> SYNTAX_ERROR_POSITION]}

\* the task of analyze from the arrival of the response: lines 73 to 86
AnalyzeOutcome(response) ==
    LET caught ==
            IF response.parse = "syntax error" THEN response.message
            ELSE IF response.parse = "null" THEN NULL_TYPE_ERROR
            ELSE IF response.parse = "not legal" THEN LEGAL_ERROR
            ELSE ""
    IN  IF response.text = "absent"
        THEN [kind |-> "error", v |-> GENERATE_ERROR]
        ELSE IF caught = ""
        THEN [kind |-> "value", v |-> "result of a legal document"]
        ELSE IF IncludesLegalContract(caught)
        THEN [kind |-> "error", v |-> caught]
        ELSE [kind |-> "error", v |-> PARSE_ERROR]

\* the model answers a call of analyze and its task settles
analyzeTaskSettles(c, response) ==
    /\ ~MicrotaskPending
    /\ calls[c].status = "awaiting"
    /\ calls[c].taskName = "Risk Analysis Phase 2"
    /\ calls' = [calls EXCEPT ![c].status = "settled",
                              ![c].taskOutcome = AnalyzeOutcome(response),
                              ![c].response = response]
    /\ UNCHANGED <<currentSession, log, requests, lastOp, prevId, app>>

AnalyzeResponds ==
    \E c \in CallIds, response \in ModelResponses : analyzeTaskSettles(c, response)

\* analyze under the gate: the session, the call, the response of the
\* model or the failure of the request, and the rest of secureExecute
NextAnalyze ==
    \/ InitSessionOp
    \/ clearSession
    \/ AnalyzeOp
    \/ AnalyzeResponds
    \/ TaskFails
    \/ Resume

SpecAnalyze == Init /\ [][NextAnalyze]_vars

\* ------------------------------------------------------ the App component
\* the questions typed into the chat
ChatInputs == Queries

\* setContractText(text): the parsed text kept as it is
Shown_Raw(text) == text

\* const safeText = securityLayer.redactPII(text); setContractText(safeText)
Shown(text) == Redacted(text)

\* contractText={contractText || ""}
DashboardText == IF app.textFrom = "none" THEN EmptyStr ELSE app.contractText

\* handleClearSession ending the session without starting the next one
RestartedSession_Ended(sessionId, now) ==
    [id |-> NULL, isActive |-> FALSE, startTime |-> 0]

\* the session record when handleClearSession returns: clearSession, then
\* initSession
RestartedSession(sessionId, now) == NewSession(sessionId, now)

\* a guarded call has settled and the handler that awaits it has not run on
\* yet, or the rest of secureExecute is queued: the continuation runs before
\* any new handler starts
ContinuationPending ==
    \E c \in CallIds : calls[c].status \in {"settled", "resolved", "rejected"}

\* the kind of run that installs a value: one that handleClearSession
\* interrupted, or not
InstalledBy(p) == IF app.procs[p].stale THEN "stale" ELSE "fresh"

\* the mount effect: initSession, setSessionId
AppMounts(array, now) ==
    LET sessionId == JoinHex(array, 1)
    IN  /\ app.mounted = "no"
        /\ currentSession' = NewSession(sessionId, now)
        /\ log' = {LogEntry("initialized", "", Prefix6(sessionId), 0, "")}
        /\ lastOp' = [op |-> "initSession", ret |-> sessionId,
                      preActive |-> currentSession.isActive, arg |-> EmptyStr]
        /\ prevId' = IF currentSession.id # NULL THEN currentSession.id ELSE prevId
        /\ app' = [app EXCEPT !.mounted = "yes", !.sessionId = sessionId]
        /\ UNCHANGED <<calls, requests>>

\* the cleanup of the mount effect: clearSession
AppUnmounts ==
    LET oldId == currentSession.id
    IN  /\ app.mounted = "yes"
        /\ ~ContinuationPending
        /\ currentSession' = ClearedSession
        /\ log' = {LogEntry("destroyed", "", OldIdText(oldId), 0, "")}
        /\ lastOp' = [op |-> "clearSession", ret |-> <<"undefined">>,
                      preActive |-> currentSession.isActive, arg |-> EmptyStr]
        /\ prevId' = IF oldId # NULL THEN oldId ELSE prevId
        /\ app' = [app EXCEPT !.mounted = "gone"]
        /\ UNCHANGED <<calls, requests>>

\* the PIN screen is shown until the PIN is entered; the Layout, the upload
\* form and the Dashboard are rendered behind it
Unlocked == app.mounted = "yes" /\ app.authenticated

\* the Unlock button with the right PIN: setAuthenticated(true)
PinEntered ==
    /\ app.mounted = "yes"
    /\ ~app.authenticated
    /\ ~ContinuationPending
    /\ app' = [app EXCEPT !.authenticated = TRUE]
    /\ UNCHANGED <<currentSession, calls, log, requests, lastOp, prevId>>

\* handleProcess up to its first await: the upload form is shown while there
\* is no analysis and enabled while nothing is being processed
handleProcess(p, text) ==
    /\ Unlocked
    /\ ~ContinuationPending
    /\ app.analysisFrom = "none"
    /\ ~app.isProcessing
    /\ app.procs[p].pc = "idle"
    /\ calls[p].status = "idle"
    /\ app' = [app EXCEPT !.isProcessing = TRUE,
                          !.procs[p] = [pc |-> "parsing", text |-> text,
                                        stale |-> FALSE]]
    /\ UNCHANGED <<currentSession, calls, log, requests, lastOp, prevId>>

\* handleProcess from the text parse resolved with to the await of analyze:
\* the redacted text goes into the state, the parsed text to analyze.  The
\* state of a component that is no longer mounted takes no update.
handleProcessParsed(p) ==
    /\ app.procs[p].pc = "parsing"
    /\ ~ContinuationPending
    /\ analyze(p, app.procs[p].text)
    /\ app' = IF app.mounted = "yes"
              THEN [app EXCEPT !.contractText = Shown(app.procs[p].text),
                               !.textFrom = InstalledBy(p),
                               !.procs[p].pc = "analyzing"]
              ELSE [app EXCEPT !.procs[p].pc = "analyzing"]

\* parse rejects: the catch block and the finally block of handleProcess
handleProcessParseFails(p) ==
    /\ app.procs[p].pc = "parsing"
    /\ ~ContinuationPending
    /\ app' = IF app.mounted = "yes"
              THEN [app EXCEPT !.isProcessing = FALSE, !.procs[p] = IdleProc]
              ELSE [app EXCEPT !.procs[p] = IdleProc]
    /\ UNCHANGED <<currentSession, calls, log, requests, lastOp, prevId>>

\* handleProcess after the await of analyze: setAnalysis(result) when it
\* resolved, the catch block when it rejected, and the finally block
handleProcessAnalyzed(p) ==
    /\ app.procs[p].pc = "analyzing"
    /\ calls[p].status \in {"resolved", "rejected"}
    /\ app' = IF app.mounted # "yes"
              THEN [app EXCEPT !.procs[p] = IdleProc]
              ELSE IF calls[p].status = "resolved"
              THEN [app EXCEPT !.analysis = calls[p].outcome.v,
                               !.analysisFrom = InstalledBy(p),
                               !.isProcessing = FALSE,
                               !.procs[p] = IdleProc]
              ELSE [app EXCEPT !.isProcessing = FALSE, !.procs[p] = IdleProc]
    /\ calls' = [calls EXCEPT ![p] = IdleCall]
    /\ UNCHANGED <<currentSession, log, requests, lastOp, prevId>>

\* handleClearSession: clearSession, the three state hooks reset, initSession
\* and setSessionId, in one handler.  The runs of handleProcess in flight
\* are not told.
handleClearSession(array, now) ==
    LET oldId == currentSession.id
        newId == JoinHex(array, 1)
    IN  /\ Unlocked
        /\ ~ContinuationPending
        /\ currentSession' = RestartedSession(newId, now)
        /\ log' = {LogEntry("destroyed", "", OldIdText(oldId), 0, ""),
                   LogEntry("initialized", "", Prefix6(newId), 0, "")}
        /\ lastOp' = [op |-> "initSession", ret |-> newId,
                      preActive |-> FALSE, arg |-> EmptyStr]
        /\ prevId' = IF oldId # NULL THEN oldId ELSE prevId
        /\ app' = [app EXCEPT
                      !.contractText = NULL, !.analysis = NULL,
                      !.isProcessing = FALSE, !.sessionId = newId,
                      !.textFrom = "none", !.analysisFrom = "none",
                      !.procs = [p \in CallIds |->
                                    IF app.procs[p].pc = "idle" THEN app.procs[p]
                                    ELSE [app.procs[p] EXCEPT !.stale = TRUE]]]
        /\ UNCHANGED <<calls, requests>>

\* the Dashboard is shown while there is an analysis
DashboardShown == Unlocked /\ app.analysisFrom # "none"

\* Dashboard.handleImprovedSummary up to its await
handleImprovedSummary(c) ==
    /\ DashboardShown
    /\ ~ContinuationPending
    /\ app.procs[c].pc = "idle"
    /\ generate(c, DashboardText)
    /\ UNCHANGED app

\* Dashboard.handleSearchContract up to its await
handleSearchContract(c, q) ==
    /\ DashboardShown
    /\ ~ContinuationPending
    /\ app.procs[c].pc = "idle"
    /\ searchContract(c, q, DashboardText)
    /\ UNCHANGED app

\* ChatInterface.handleSend up to its await
handleSend(c, q) ==
    /\ DashboardShown
    /\ ~ContinuationPending
    /\ app.procs[c].pc = "idle"
    /\ query(c, q, DashboardText)
    /\ UNCHANGED app

\* the rest of a Dashboard or chat handler: it takes what the guarded call
\* settled with into the component's own state
handlerReturns(c) ==
    /\ app.procs[c].pc = "idle"
    /\ calls[c].status \in {"resolved", "rejected"}
    /\ calls' = [calls EXCEPT ![c] = IdleCall]
    /\ UNCHANGED <<currentSession, log, requests, lastOp, prevId, app>>

MountOp == \E array \in RandomArrays, now \in DateNowValues : AppMounts(array, now)

ProcessOp == \E p \in CallIds, text \in ParsedTexts : handleProcess(p, text)

ParsedOp == \E p \in CallIds : handleProcessParsed(p)

ParseFailsOp == \E p \in CallIds : handleProcessParseFails(p)

AnalyzedOp == \E p \in CallIds : handleProcessAnalyzed(p)

ClearSessionOp ==
    \E array \in RandomArrays, now \in DateNowValues : handleClearSession(array, now)

SummaryOp == \E c \in CallIds : handleImprovedSummary(c)

SearchContractOp == \E c \in CallIds, q \in ChatInputs : handleSearchContract(c, q)

SendOp == \E c \in CallIds, q \in ChatInputs : handleSend(c, q)

ReturnsOp == \E c \in CallIds : handlerReturns(c)

NextApp ==
    \/ MountOp
    \/ AppUnmounts
    \/ PinEntered
    \/ ProcessOp
    \/ ParsedOp
    \/ ParseFailsOp
    \/ TaskResolves
    \/ TaskFails
    \/ Resume
    \/ AnalyzedOp
    \/ ClearSessionOp
    \/ SummaryOp
    \/ SearchContractOp
    \/ SendOp
    \/ ReturnsOp

SpecApp == Init /\ [][NextApp]_vars

\* ------------------------------------------------- redactPII on its own
\* redactPII applied to a text as it came
RedactSample == \E text \in PureTexts : redactPIICalled(text)

\* redactPII applied to the text the previous redactPII returned: the text
\* App keeps for display is redacted, and redacted again inside secureExecute
RedactAgain ==
    /\ lastOp.op = "redactPII"
    /\ redactPIICalled(lastOp.ret)

NextPure ==
    \/ InitSessionOp
    \/ clearSession
    \/ RedactSample
    \/ RedactAgain

SpecPure == Init /\ [][NextPure]_vars

\* ================================================================ claims
IsDone(call) == call.status \in {"resolved", "rejected"}

\* C1: a call of secureExecute made while no session is active (never
\* initialised, or cleared) rejects with the no-active-session error, and
\* neither redactPII nor the task is invoked for it.
C1_NoSessionRejects ==
    \A c \in CallIds :
        (calls[c].status # "idle" /\ ~calls[c].entryActive) =>
            /\ calls[c].status = "rejected"
            /\ calls[c].outcome = [kind |-> "error", v |-> NO_SESSION_ERROR]
            /\ calls[c].redactions = 0
            /\ calls[c].taskArgs = <<>>

\* a call was just rejected for want of a session, after a session had been
\* initialised and cleared
C1_Witness ==
    /\ lastOp.op = "secureExecute"
    /\ ~lastOp.preActive
    /\ prevId # NULL
    /\ \E c \in CallIds : calls[c].outcome.v = NO_SESSION_ERROR

\* C2: with a session active, a call of secureExecute whose input is longer
\* than MAX_INPUT_CHARS rejects with the validation error, which is not the
\* no-session error; the task is never invoked, and the input is neither
\* redacted nor sent anywhere.
C2_OversizeRejects ==
    \A c \in CallIds :
        (calls[c].status # "idle" /\ calls[c].entryActive
            /\ Length(calls[c].input) > MAX_INPUT_CHARS) =>
            /\ calls[c].status = "rejected"
            /\ calls[c].outcome = [kind |-> "error", v |-> VALIDATION_ERROR]
            /\ calls[c].outcome.v # NO_SESSION_ERROR
            /\ calls[c].taskArgs = <<>>
            /\ calls[c].redactions = 0
            /\ requests = {}

\* the 150,000-character input was rejected in an active session
C2_Witness ==
    \E c \in CallIds :
        /\ calls[c].input = HugeText
        /\ calls[c].entryActive
        /\ calls[c].status = "rejected"

\* C3: when secureExecute invokes the task it invokes it once, with
\* redactPII(input) as the argument, never with the input as it came.
C3_TaskGetsRedactedInput ==
    \A c \in CallIds :
        calls[c].taskArgs # <<>> =>
            /\ Len(calls[c].taskArgs) = 1
            /\ calls[c].taskArgs[1] = RedactedInput[calls[c].input]

\* the task ran on an input that holds PII: its argument is not the input
C3_Witness ==
    \E c \in CallIds :
        /\ Len(calls[c].taskArgs) = 1
        /\ calls[c].taskArgs[1] # calls[c].input
        /\ IsDone(calls[c])

\* C4: every request to the LLM service is sent from inside a task run by
\* secureExecute, hence in an active session; no collaborator sends one
\* directly.
C4_EveryRequestThroughGate ==
    \A r \in requests : r.viaGate /\ r.sessionActive

\* C5: a guarded call is bound to the session that was current when it was
\* entered: it does not deliver the task's result once that session has
\* been cleared or replaced.
C5_BoundToEntrySession ==
    \A c \in CallIds :
        calls[c].status = "resolved" => calls[c].doneId = calls[c].entryId

\* C6: when the task resolves with r, secureExecute resolves with r.
C6_ResultUnchanged ==
    \A c \in CallIds :
        (IsDone(calls[c]) /\ calls[c].taskOutcome.kind = "value") =>
            /\ calls[c].status = "resolved"
            /\ calls[c].outcome = [kind |-> "value", v |-> calls[c].taskOutcome.v]

\* a call resolved with the second of the results
C6_Witness ==
    \E c \in CallIds :
        calls[c].status = "resolved" /\ calls[c].taskOutcome.v = "r2"

\* C7: when the task fails with e, secureExecute rejects with e: the failure
\* is neither swallowed nor replaced.
C7_FailurePropagates ==
    \A c \in CallIds :
        (IsDone(calls[c]) /\ calls[c].taskOutcome.kind = "error") =>
            /\ calls[c].status = "rejected"
            /\ calls[c].outcome = [kind |-> "error", v |-> calls[c].taskOutcome.v]

\* a call rejected with the failure of its task, which the catch block logged
C7_Witness ==
    \E c \in CallIds :
        /\ calls[c].status = "rejected"
        /\ calls[c].taskOutcome.kind = "error"
        /\ \E e \in log : e.msg = "error" /\ e.err = calls[c].taskOutcome.v

\* C8: initSession succeeds from any session state, returns an identifier and
\* leaves the session record active with that identifier, which getSessionId
\* then returns; a previous session is overwritten.
C8_InitInstalls ==
    /\ ~MicrotaskPending => ENABLED InitSessionOp
    /\ lastOp.op = "initSession" =>
            /\ lastOp.ret # NULL
            /\ currentSession.isActive
            /\ currentSession.id = lastOp.ret
            /\ SessionIdRead = lastOp.ret

\* initSession ran over an active session and replaced its identifier
C8_Witness ==
    /\ lastOp.op = "initSession"
    /\ lastOp.preActive
    /\ prevId # NULL
    /\ prevId # currentSession.id

\* C9: clearSession from any state leaves isActive false and the identifier
\* null; it does not fail when no session is active, and a second call
\* leaves the state the first one left.
C9_ClearClears ==
    /\ ~MicrotaskPending => ENABLED clearSession
    /\ lastOp.op = "clearSession" =>
            /\ ~currentSession.isActive
            /\ currentSession.id = NULL
            /\ currentSession = NoSession

\* clearSession ran with no session active, after a session had ended
C9_Witness ==
    /\ lastOp.op = "clearSession"
    /\ ~lastOp.preActive
    /\ prevId # NULL

\* C10 as claimed: after clearSession getSessionId returns null, and the
\* next initSession yields an identifier different from that of the session
\* that was cleared.
C10_NextIdDiffers ==
    /\ lastOp.op = "clearSession" => SessionIdRead = NULL
    /\ (lastOp.op = "initSession" /\ ~lastOp.preActive /\ prevId # NULL) =>
            currentSession.id # prevId

\* C10 as amended: after clearSession getSessionId returns null, and the
\* next initSession yields a non-null identifier, the 32 hexadecimal digits
\* of the bytes the random source delivered; nothing compares it with the
\* identifier of the session that was cleared.
C10_AbsentThenRandomId ==
    /\ lastOp.op = "clearSession" => SessionIdRead = NULL
    /\ (lastOp.op = "initSession" /\ ~lastOp.preActive /\ prevId # NULL) =>
            /\ SessionIdRead # NULL
            /\ Len(SessionIdRead) = 2 * SessionBytes
            /\ \E array \in RandomArrays : SessionIdRead = JoinHex(array, 1)

\* a session was cleared and the next initSession drew another identifier
C10_Witness ==
    /\ lastOp.op = "initSession"
    /\ ~lastOp.preActive
    /\ prevId # NULL
    /\ currentSession.id # prevId

\* C11 : in every reachable state the session has an identifier exactly when
\* it is active, so getSessionId returns no identifier exactly when the
\* session is inactive; before any operation the session is inactive and
\* has no identifier.
C11_IdIffActive ==
    /\ (currentSession.id # NULL) <=> currentSession.isActive
    /\ (SessionIdRead = NULL) <=> ~currentSession.isActive
    /\ lastOp.op = "getSessionId" => ((lastOp.ret = NULL) <=> ~lastOp.preActive)
    /\ lastOp.op = "none" => (~currentSession.isActive /\ currentSession.id = NULL)

\* getSessionId returned no identifier once a session had been cleared
\* while a guarded call was in flight
C11_Witness ==
    /\ lastOp.op = "getSessionId"
    /\ lastOp.ret = NULL
    /\ prevId # NULL
    /\ \E c \in CallIds : calls[c].status = "awaiting"

\* C12 as claimed: redactPII never runs, and no task is called, in a state
\* where the session is inactive.
C12_NoRedactionWhileInactive ==
    /\ lastOp.op = "redactPII" => lastOp.preActive
    /\ \A c \in CallIds :
            (calls[c].redactions > 0 \/ calls[c].taskArgs # <<>>) =>
                calls[c].entryActive

\* C12 as amended: secureExecute neither redacts nor calls the task unless a
\* session is active when it is entered; redactPII called on its own checks
\* no session: it can be called in every state and returns the redacted
\* text whether or not a session is active.
C12_OnlyTheGateNeedsSession ==
    /\ \A c \in CallIds :
            (calls[c].redactions > 0 \/ calls[c].taskArgs # <<>>) =>
                calls[c].entryActive
    /\ ~MicrotaskPending =>
            \A text \in RedactInputs : ENABLED redactPIICalled(text)
    /\ lastOp.op = "redactPII" => lastOp.ret = RedactedInput[lastOp.arg]

\* redactPII ran on the scenario text with no session active and returned
\* it redacted
C12_Witness ==
    /\ lastOp.op = "redactPII"
    /\ ~lastOp.preActive
    /\ lastOp.arg = ScenarioText
    /\ lastOp.ret # lastOp.arg
    /\ Contains(lastOp.ret.body, REDACTED_EMAIL)

\* C13 : validateInput returns false exactly when the text is longer than
\* 100,000 characters: a text of 100,000 characters passes, one of 100,001
\* does not; it can be called in every state, returns a boolean and returns
\* the same for a text whether or not a session is active.
C13_ValidateBoundary ==
    /\ ~MicrotaskPending =>
            \A text \in ValidateInputs : ENABLED validateInputCalled(text)
    /\ lastOp.op = "validateInput" =>
            /\ lastOp.ret \in BOOLEAN
            /\ (lastOp.ret = FALSE) <=> (Length(lastOp.arg) > 100000)
            /\ Length(lastOp.arg) = 100000 => lastOp.ret = TRUE
            /\ Length(lastOp.arg) = 100001 => lastOp.ret = FALSE

\* a text of exactly 100,000 characters passed with no session active
C13_Witness ==
    /\ lastOp.op = "validateInput"
    /\ Length(lastOp.arg) = 100000
    /\ lastOp.ret = TRUE
    /\ ~lastOp.preActive
    /\ ~currentSession.isActive

\* C14 : no entry written to the log holds the raw input of a guarded call
\* or the redacted text: the entry written when a task starts carries the
\* task name and the length of the redacted input, the entry written when a
\* task fails carries the task name and the error, the entry of a rejected
\* length carries the limit.
C14_LogsCarryNoText ==
    \A e \in log :
        /\ \A text \in ExecInputs :
                /\ ~Contains(e.id6, text.body)
                /\ ~Contains(e.id6, RedactedInput[text].body)
        /\ e.msg = "executing" =>
                /\ e.id6 = <<>>
                /\ e.err = ""
                /\ \E c \in CallIds :
                        /\ e.task = calls[c].taskName
                        /\ e.len = Length(RedactedInput[calls[c].input])
        /\ e.msg = "error" =>
                /\ e.id6 = <<>>
                /\ e.err \in Errors
                /\ \E c \in CallIds : e.task = calls[c].taskName
        /\ e.msg = "exceeds max length" =>
                /\ e.id6 = <<>>
                /\ e.len = MAX_INPUT_CHARS

\* the entry of a started task is in the log: its input held an e-mail
\* address and a telephone number, the entry holds the length only
C14_Witness ==
    \E e \in log, c \in CallIds :
        /\ e.msg = "executing"
        /\ calls[c].input = ScenarioText
        /\ calls[c].status = "awaiting"
        /\ e.len = Length(RedactedInput[ScenarioText])

\* the placeholder named after a category: {REDACTED_ followed by the label
\* followed by }
LabelToken(k) ==
    <<"{", "R", "E", "D", "A", "C", "T", "E", "D", "_">> \o CategoryLabel[k] \o <<"}">>

\* C15 as claimed: a match of the rule of each of the five categories is
\* replaced by the placeholder whose suffix is the label of that category,
\* {REDACTED_CREDIT_CARD} for a card number.
C15_TokenNamedByLabel ==
    \A k \in Categories :
        (lastOp.op = "redactPII" /\ lastOp.arg = CategorySample[k]) =>
            lastOp.ret = Str(LabelToken(k), 0)

\* C15 as amended: a match of the EMAIL, PHONE, SSN or ADDRESS rule is
\* replaced by the placeholder whose suffix is the label of the category; a
\* match of the CREDIT_CARD rule is replaced by {REDACTED_CC}.
C15_TokenPerCategory ==
    \A k \in Categories :
        (lastOp.op = "redactPII" /\ lastOp.arg = CategorySample[k]) =>
            lastOp.ret =
                IF k = "CREDIT_CARD"
                THEN Str(<<"{", "R", "E", "D", "A", "C", "T", "E", "D", "_", "C", "C", "}">>, 0)
                ELSE Str(LabelToken(k), 0)

\* redactPII was applied to "4111 1111 1111 1111" and returned {REDACTED_CC}
C15_Witness ==
    /\ lastOp.op = "redactPII"
    /\ lastOp.arg = CategorySample["CREDIT_CARD"]
    /\ lastOp.ret.body = REDACTED_CC

NoRuleMatches(body) ==
    \A k \in Categories, i \in 1 .. Len(body) :
        MatchEnd(PII_PATTERNS[k], body, i) = 0

\* C17 : a text in which none of the five rules has a match, the empty text
\* included, comes back from redactPII character for character as it went in.
C17_CleanTextUnchanged ==
    /\ \A text \in CleanTexts : NoRuleMatches(text.body)
    /\ (lastOp.op = "redactPII" /\ NoRuleMatches(lastOp.arg.body)) =>
            lastOp.ret = lastOp.arg

\* redactPII was applied to " Term: 2 years ", in which no rule has a
\* match, and returned it, blanks included
C17_Witness ==
    /\ lastOp.op = "redactPII"
    /\ Len(lastOp.arg.body) > 0
    /\ Head(lastOp.arg.body) = " "
    /\ NoRuleMatches(lastOp.arg.body)
    /\ lastOp.ret = lastOp.arg

\* the five placeholders
Placeholders ==
    {REDACTED_EMAIL, REDACTED_PHONE, REDACTED_SSN, REDACTED_CC, REDACTED_ADDRESS}

\* the placeholder that starts at position i of body, <<>> when none does
PlaceholderAt(body, i) ==
    LET here == {t \in Placeholders :
                    /\ i + Len(t) - 1 <= Len(body)
                    /\ SubSeq(body, i, i + Len(t) - 1) = t}
    IN  IF here = {} THEN <<>> ELSE CHOOSE t \in here : TRUE

\* the positions of body at which a placeholder starts
PlaceholderStarts(body) ==
    {i \in 1 .. Len(body) : PlaceholderAt(body, i) # <<>>}

\* body with every placeholder left as it stands and every stretch between
\* placeholders redacted on its own
RECURSIVE RedactedAround(_)
RedactedAround(body) ==
    IF PlaceholderStarts(body) = {} THEN redactPII(Str(body, 0)).body
    ELSE LET i == CHOOSE j \in PlaceholderStarts(body) :
                      \A l \in PlaceholderStarts(body) : j <= l
             t == PlaceholderAt(body, i)
         IN  redactPII(Str(SubSeq(body, 1, i - 1), 0)).body
                 \o t
                 \o RedactedAround(SubSeq(body, i + Len(t), Len(body)))

\* C18 : redactPII applied to a text that holds placeholders, redacted text
\* above all, leaves every placeholder as it stands and where it stands: the
\* rules match between the placeholders only, never across or inside one.
C18_PlaceholdersKept ==
    lastOp.op = "redactPII" =>
        lastOp.ret.body = RedactedAround(lastOp.arg.body)

\* redactPII was applied to its own output {REDACTED_ADDRESS}123-45-6789: the
\* second run found a social security number the first had not, and kept
\* the placeholder before it
C18_Witness ==
    /\ lastOp.op = "redactPII"
    /\ PlaceholderAt(lastOp.arg.body, 1) = REDACTED_ADDRESS
    /\ ~Contains(lastOp.arg.body, REDACTED_SSN)
    /\ lastOp.ret.body = REDACTED_ADDRESS \o REDACTED_SSN

\* the passes in the order of the table, and the placeholder of each
PassOrder == <<"EMAIL", "PHONE", "SSN", "CREDIT_CARD", "ADDRESS">>

PassToken ==
    [EMAIL |-> REDACTED_EMAIL, PHONE |-> REDACTED_PHONE, SSN |-> REDACTED_SSN,
     CREDIT_CARD |-> REDACTED_CC, ADDRESS |-> REDACTED_ADDRESS]

\* passes k, k+1, ... applied one after the other, each to the output of
\* the one before
RECURSIVE ApplyPasses(_, _)
ApplyPasses(body, k) ==
    IF k > Len(PassOrder) THEN body
    ELSE ApplyPasses(Replace(body, PII_PATTERNS[PassOrder[k]], PassToken[PassOrder[k]]),
                     k + 1)

\* C19 : what redactPII returns is the five replace-all passes applied in
\* the order EMAIL, PHONE, SSN, CREDIT_CARD, ADDRESS, each to the output of
\* the one before, and nothing else: the same for the same text whether or
\* not a session is active and whatever was called before; the 16 digits of
\* "Card 4111111111111111" meet the PHONE pass before the CREDIT_CARD pass.
C19_PassesInOrder ==
    /\ ~MicrotaskPending => \A text \in PureTexts : ENABLED redactPIICalled(text)
    /\ lastOp.op = "redactPII" =>
            /\ lastOp.ret =
                    IF Length(lastOp.arg) = 0 THEN EmptyStr
                    ELSE Str(ApplyPasses(lastOp.arg.body, 1), lastOp.arg.pad)
            /\ lastOp.arg \in PureTexts => lastOp.ret = RedactedInput[lastOp.arg]
            /\ lastOp.arg.body = <<"C", "a", "r", "d", " ", "4", "1", "1", "1", "1", "1",
                                   "1", "1", "1", "1", "1", "1", "1", "1", "1", "1">> =>
                    lastOp.ret.body = <<"C", "a", "r", "d", " ">> \o REDACTED_PHONE
                                        \o <<"1", "1", "1", "1", "1", "1">>

\* redactPII was applied to "Card 4111111111111111" with no session active,
\* after a session had been cleared, and the PHONE pass came first
C19_Witness ==
    /\ lastOp.op = "redactPII"
    /\ ~lastOp.preActive
    /\ prevId # NULL
    /\ Contains(lastOp.arg.body, <<"4", "1", "1", "1", "1">>)
    /\ Contains(lastOp.ret.body, REDACTED_PHONE)

\* C20 as claimed: of a card number of 13 to 16 digits, written with or
\* without blanks, no digit is left in what redactPII returns.
C20_NoCardDigitLeft ==
    \A e \in CardSamples :
        (lastOp.op = "redactPII" /\ lastOp.arg = CardText(e)) =>
            \A i \in 1 .. Len(lastOp.ret.body) : lastOp.ret.body[i] \notin Digits

\* out is inp with some stretches of one or more characters each replaced
\* by one placeholder, and every other character kept, in order
RECURSIVE SpansReplaced(_, _)
SpansReplaced(inp, out) ==
    IF out = <<>> THEN inp = <<>>
    ELSE \/ /\ inp # <<>>
            /\ Head(inp) = Head(out)
            /\ SpansReplaced(Tail(inp), Tail(out))
         \/ /\ PlaceholderAt(out, 1) # <<>>
            /\ \E k \in 1 .. Len(inp) :
                    SpansReplaced(SubSeq(inp, k + 1, Len(inp)),
                                  SubSeq(out, Len(PlaceholderAt(out, 1)) + 1, Len(out)))

\* C21 : what redactPII returns is its input with each span a rule matched
\* replaced by one placeholder and every character outside those spans kept,
\* in order: the scenario text comes back as "Contact me at {REDACTED_EMAIL}
\* or {REDACTED_PHONE}", and "SSN: 123-45-6789" as "SSN: {REDACTED_SSN}", the
\* PHONE pass having left the number to the SSN pass.
C21_OnlySpansChange ==
    lastOp.op = "redactPII" =>
        /\ SpansReplaced(lastOp.arg.body, lastOp.ret.body)
        /\ lastOp.ret.pad = lastOp.arg.pad
        /\ lastOp.arg = ScenarioText =>
                lastOp.ret.body =
                    <<"C", "o", "n", "t", "a", "c", "t", " ", "m", "e", " ", "a", "t", " ">>
                        \o REDACTED_EMAIL \o <<" ", "o", "r", " ">> \o REDACTED_PHONE
        /\ lastOp.arg = Str(SsnBody, 0) =>
                lastOp.ret.body = <<"S", "S", "N", ":", " ">> \o REDACTED_SSN

\* redactPII was applied to "SSN: 123-45-6789" and returned
\* "SSN: {REDACTED_SSN}"
C21_Witness ==
    /\ lastOp.op = "redactPII"
    /\ lastOp.arg = Str(SsnBody, 0)
    /\ lastOp.ret.body = <<"S", "S", "N", ":", " ">> \o REDACTED_SSN

\* C22 : secureExecute checks the session, then the size, then redacts,
\* then calls the task: a call with no session active and an input over
\* the limit fails with the no-active-session error and validateInput is
\* not evaluated for it; a call with a session and an input over the limit
\* fails in validation, before redactPII and the task.
C22_ChecksInOrder ==
    \A c \in CallIds :
        (calls[c].status # "idle" /\ Length(calls[c].input) > MAX_INPUT_CHARS) =>
            /\ calls[c].status = "rejected"
            /\ calls[c].redactions = 0
            /\ calls[c].taskArgs = <<>>
            /\ IF calls[c].entryActive
               THEN /\ calls[c].outcome = [kind |-> "error", v |-> VALIDATION_ERROR]
                    /\ calls[c].validations = 1
               ELSE /\ calls[c].outcome = [kind |-> "error", v |-> NO_SESSION_ERROR]
                    /\ calls[c].validations = 0

\* a call with the input of 100,001 characters was made with no session
\* active and failed with the no-active-session error
C22_Witness ==
    \E c \in CallIds :
        /\ calls[c].input = OverLimitText
        /\ ~calls[c].entryActive
        /\ calls[c].outcome = [kind |-> "error", v |-> NO_SESSION_ERROR]
        /\ calls[c].validations = 0

\* C23 : from the session check to the call of the task secureExecute runs
\* without giving way: initSession, clearSession, another secureExecute and
\* the continuation of a settled call start only when no call is between
\* its check and its await, so the task is started only in a state where
\* the session is active, the session that was checked.
C23_TaskStartsInActiveSession ==
    /\ HandlerRunning =>
            /\ ~ENABLED ClearBetween
            /\ ~ENABLED InitBetween
            /\ ~ENABLED CheckStep
            /\ ~ENABLED ResumeBetween
    /\ \A c \in CallIds :
            /\ calls[c].status \in {"checked", "validated", "redacted"} =>
                    /\ currentSession.isActive
                    /\ currentSession.id = calls[c].entryId
            /\ calls[c].taskArgs # <<>> =>
                    /\ calls[c].entryActive
                    /\ calls[c].startActive

\* a task was started in the session that was checked, after an earlier
\* session had been cleared, and the session was cleared while it ran
C23_Witness ==
    \E c \in CallIds :
        /\ calls[c].status = "awaiting"
        /\ calls[c].startActive
        /\ prevId = calls[c].entryId
        /\ ~currentSession.isActive

\* C24 : a call rejected for want of a session leaves the session record as
\* it was, and harms nothing but itself: when initSession has run and
\* secureExecute is called again with the same input, within the limit, the
\* call passes the checks, the task gets the redacted input, and the call
\* resolves with what the task resolved with.
C24_RetryAfterInitSucceeds ==
    /\ (lastOp.op = "secureExecute" /\ ~lastOp.preActive) => currentSession = NoSession
    /\ \A c \in CallIds :
            (/\ calls[c].retryOf # EmptyStr
             /\ calls[c].status # "idle"
             /\ calls[c].entryActive
             /\ Length(calls[c].retryOf) <= MAX_INPUT_CHARS) =>
                /\ calls[c].input = calls[c].retryOf
                /\ calls[c].taskArgs = <<RedactedInput[calls[c].retryOf]>>
                /\ calls[c].status = "rejected" => calls[c].taskOutcome.kind = "error"
                /\ calls[c].status = "resolved" =>
                        /\ calls[c].taskOutcome.kind = "value"
                        /\ calls[c].outcome = calls[c].taskOutcome

\* the scenario text was turned away with no session, initSession ran, the
\* same text was handed in again and the call resolved with the result of
\* the task
C24_Witness ==
    \E c \in CallIds :
        /\ calls[c].retryOf = ScenarioText
        /\ calls[c].input = ScenarioText
        /\ calls[c].status = "resolved"
        /\ calls[c].outcome.v \in Results

\* C25 as claimed: every text a collaborator puts into a prompt it sends
\* from inside secureExecute (contract text, clause text, contract context,
\* query) has been through redactPII: no rule of the table has a match left
\* in it.
C25_PromptTextsRedacted ==
    \A r \in requests :
        r.viaGate =>
            \A i \in DOMAIN r.texts : NoRuleMatches(r.texts[i].body)

\* C28 : the session record changes only in a step of initSession or of
\* clearSession: secureExecute, whether it rejects for want of a session,
\* rejects in validation, returns the result of the task or rethrows its
\* failure, and validateInput, redactPII and getSessionId leave id, isActive
\* and startTime as they were.
C28_OnlyInitAndClearWrite ==
    [][currentSession' # currentSession => (InitSessionOp \/ clearSession)]_vars

\* a call was rejected with the failure of its task and the session is the
\* one it was entered in, still active
C28_Witness ==
    \E c \in CallIds :
        /\ calls[c].status = "rejected"
        /\ calls[c].taskOutcome.kind = "error"
        /\ currentSession.isActive
        /\ currentSession.id = calls[c].entryId
        /\ lastOp.op = "secureExecute"

\* C30 as claimed: analyze never resolves with a result marked
\* is_legal_document = false; a response that parses to such a result rejects
\* with the not-a-legal-contract error, a response that is not parseable JSON
\* with 'Failed to parse analysis results.', a response without text with
\* 'Failed to generate analysis', and the caller of analyze sees exactly that
\* rejection.
C30_AnalyzeRejections ==
    \A c \in CallIds :
        (IsDone(calls[c]) /\ calls[c].response # NoResponse) =>
            LET response == calls[c].response
                outcome == calls[c].outcome
            IN  /\ outcome.kind = "value" => response.parse # "not legal"
                /\ response.parse = "not legal" =>
                       outcome = [kind |-> "error", v |-> LEGAL_ERROR]
                /\ response.parse = "syntax error" =>
                       outcome = [kind |-> "error", v |-> PARSE_ERROR]
                /\ response.text = "absent" =>
                       outcome = [kind |-> "error", v |-> GENERATE_ERROR]

\* the guarded calls the Dashboard and the chat start with the contract text
\* of the App state
DashboardTasks == {"Improved Summary", "NL Search Phase 3", "Simple Chat"}

\* C26 : the contract text in the App state is never the raw text: it is
\* null or redactPII of a text parse resolved with; so the input of every
\* guarded call the Dashboard or the chat starts is a redacted text (or the
\* empty text that stands for null), and secureExecute hands the task that
\* input redacted once more.
C26_StateTextRedacted ==
    /\ IF app.textFrom = "none" THEN app.contractText = NULL
       ELSE \E text \in ParsedTexts : app.contractText = RedactedInput[text]
    /\ \A c \in CallIds :
           (calls[c].status # "idle" /\ calls[c].taskName \in DashboardTasks) =>
               /\ \/ calls[c].input = EmptyStr
                  \/ \E text \in ParsedTexts : calls[c].input = RedactedInput[text]
               /\ calls[c].redactions = 1 =>
                      calls[c].taskArgs = <<Redacted(calls[c].input)>>

\* the redacted scenario text is in the App state and the Dashboard has
\* started an Improved Summary with it: the task runs on its second redaction
C26_Witness ==
    /\ app.textFrom = "fresh"
    /\ app.contractText = RedactedInput[ScenarioText]
    /\ app.contractText # ScenarioText
    /\ \E c \in CallIds :
           /\ calls[c].status = "awaiting"
           /\ calls[c].taskName = "Improved Summary"
           /\ calls[c].input = RedactedInput[ScenarioText]
           /\ calls[c].taskArgs = <<RedactedShown[RedactedInput[ScenarioText]]>>

\* C27 as claimed: after handleClearSession the contract text and the
\* analysis stay null until a handleProcess started after the clear
\* completes; a handleProcess that was in flight when the session was cleared
\* never installs its contract text or its analysis in the state of the new
\* session.
C27_ClearSevers ==
    /\ app.textFrom # "stale"
    /\ app.analysisFrom # "stale"

\* C29 : while the App is mounted a session is active in every state in
\* which a handler can start, the one whose id the App holds: the mount
\* effect starts it, handleClearSession ends it and starts the next one in
\* the same handler, only the cleanup of the mount effect leaves none.  So no
\* guarded call that starts while the App is mounted is rejected with the
\* no-active-session error.
C29_SessionWhileMounted ==
    app.mounted = "yes" =>
        /\ ~NoActiveSession
        /\ currentSession.id = app.sessionId
        /\ \A c \in CallIds :
               ~(/\ calls[c].status = "rejected"
                 /\ calls[c].outcome = [kind |-> "error", v |-> NO_SESSION_ERROR])

\* handleClearSession has run, and a guarded call that started afterwards,
\* in the session it started, has resolved
C29_Witness ==
    /\ app.mounted = "yes"
    /\ prevId # NULL
    /\ \E c \in CallIds :
           /\ calls[c].status = "resolved"
           /\ calls[c].entryActive
           /\ calls[c].entryId = currentSession.id
           /\ calls[c].entryId = app.sessionId
====
